---- MODULE Spec2Model ----
(***************************************************************************)
(* BigBird block-sparse attention (modeling_big_bird.py): the random       *)
(* attention plan, the per-head random adjacency sampler, the process-wide *)
(* numpy random generator it draws from, and the entry checks of forward.  *)
(*                                                                         *)
(* Python sequences are 0-based; the sequences below are 1-based, so the   *)
(* Python cell x[c] is x[c + 1] here.  Block and head numbers keep their   *)
(* Python values (rows are functions on 0..num_blocks-1).                  *)
(***************************************************************************)
EXTENDS Integers, Sequences, FiniteSets, TLC

(***************************************************************************)
(* Bounds of the model.                                                    *)
(***************************************************************************)
\* largest number of blocks (seq_len // block_size) of an invocation
MaxBlocks == 8
\* largest block_size
MaxBlockSize == 2
\* largest config.num_random_blocks
MaxRand == 2
\* largest config.num_attention_heads
MaxHeads == 2
\* largest adjacency array (num_heads * num_blocks * num_random_blocks cells)
MaxCells == 14
\* largest layer index used as a seed
MaxSeed == 1
\* longest block range of a direct call of _get_single_block_row_attention
MaxSpan == 5
\* longest sequence (in tokens) whose attention is computed
MaxTokens == 12
\* largest number of padding tokens in an attention mask
MaxMasked == 1

(***************************************************************************)
(* Program constants.                                                      *)
(***************************************************************************)
\* seed=None, the default of BigBirdBlockSparseAttention.__init__
NoSeed == -1
window_block_left == 1
window_block_right == 1
global_block_top == 1
global_block_bottom == 1
global_block_left == 1
global_block_right == 1
\* "old plans used in paper"
OldPlanLengths == {1024, 3072, 4096}

Inv == {1, 2}

VARIABLES
    cfg,        \* per invocation: seq_len, block_size, r, heads, seed
    pc,         \* per invocation: where the invocation stands
    plan,       \* per invocation: plan_from_length, plan_num_rand_blocks
    calls,      \* per invocation: the iterations of the sampler's row loops, in order
    rand_attn,  \* per invocation: rand_attn[h][blk_rw_idx] inside the sampler
    step,       \* per invocation: number of sampler calls already made
    result,     \* per invocation: what _bigbird_block_rand_mask_with_head returned
    err,        \* per invocation: the exception that ended it, "" if none
    stored,     \* per invocation: attributes the invocation set on its module
    rng,        \* the process-wide state of np.random
    plan_args,  \* arguments of a direct call of _get_rand_attn_plan
    plan_ret,   \* what that call gave
    row_args,   \* arguments of a direct call of _get_single_block_row_attention
    row_ret,    \* the permutation that call drew and what it gave
    inputs,     \* per invocation: attention mask, band mask, output_attentions, grad mode
    context,    \* per invocation: context_layer, per head and query token
    probs,      \* per invocation: attention_probs, per head and query token
    rand_mask,  \* per invocation: rand_mask[h][l][q][column]
    gathered_key \* per invocation: gathered_key[h][l], the key tokens in order

\* what the sampler and the planner leave alone
row_vars == <<row_args, row_ret>>
attn_vars == <<inputs, context, probs, rand_mask, gathered_key>>

vars == <<cfg, pc, plan, calls, rand_attn, step, result, err, stored, rng,
          plan_args, plan_ret, row_args, row_ret, inputs, context, probs,
          rand_mask, gathered_key>>

(***************************************************************************)
(* Python and numpy primitives.                                            *)
(***************************************************************************)
Min(a, b) == IF a < b THEN a ELSE b
Max(a, b) == IF a > b THEN a ELSE b

\* a // b of Python (floor division), b # 0
FloorDiv(a, b) == IF b > 0 THEN a \div b ELSE (0 - a) \div (0 - b)

\* a % b of Python (the sign of b), b # 0
PyMod(a, b) == a - b * FloorDiv(a, b)

\* sum(s[:n]) / np.sum(s[:n])
RECURSIVE SumTo(_, _)
SumTo(s, n) ==
    IF n <= 0 \/ Len(s) = 0 THEN 0
    ELSE IF n >= Len(s) THEN s[Len(s)] + SumTo(SubSeq(s, 1, Len(s) - 1), Len(s) - 1)
    ELSE SumTo(SubSeq(s, 1, n), n)

\* np.arange(lo, hi)
arange(lo, hi) == [i \in 1..Max(hi - lo, 0) |-> lo + i - 1]

\* np.zeros((n,))
zeros(n) == [i \in 1..Max(n, 0) |-> 0]

Range(s) == {s[i] : i \in DOMAIN s}

\* row[lo:hi] = val of numpy: the slice is clipped to the row, a value of the
\* slice's length is copied, a value of length 1 is broadcast, anything else
\* raises ValueError (ok = FALSE)
AssignSlice(row, lo, hi, val) ==
    LET a == Min(lo, Len(row))
        b == Min(hi, Len(row))
        w == Max(b - a, 0)
    IN  IF Len(val) = w
        THEN [ok |-> TRUE,
              row |-> [c \in 1..Len(row) |->
                         IF c > a /\ c <= b THEN val[c - a] ELSE row[c]]]
        ELSE IF Len(val) = 1
        THEN [ok |-> TRUE,
              row |-> [c \in 1..Len(row) |->
                         IF c > a /\ c <= b THEN val[1] ELSE row[c]]]
        ELSE [ok |-> FALSE, row |-> row]

(***************************************************************************)
(* _get_rand_attn_plan                                                     *)
(***************************************************************************)
\* the plan with the remainder of an odd budget dropped from the second half
plan_halves_equal(from_seq_length, from_block_size, num_rand_blocks) ==
    LET nb == FloorDiv(from_seq_length, from_block_size)
    IN  IF (2 * num_rand_blocks + 5) < nb
        THEN [plan_from_length |->
                 <<(2 * num_rand_blocks + 5) * from_block_size, from_seq_length>>,
              plan_num_rand_blocks |-> <<num_rand_blocks, 0>>]
        ELSE IF (num_rand_blocks + 5) < nb
        THEN [plan_from_length |->
                 <<(num_rand_blocks + 5) * from_block_size, from_seq_length>>,
              plan_num_rand_blocks |->
                 <<FloorDiv(num_rand_blocks, 2), FloorDiv(num_rand_blocks, 2)>>]
        ELSE [plan_from_length |-> <<from_seq_length>>,
              plan_num_rand_blocks |-> <<num_rand_blocks>>]

\* the plan with <= for < in its two tests
plan_tests_inclusive(from_seq_length, from_block_size, num_rand_blocks) ==
    LET nb == FloorDiv(from_seq_length, from_block_size)
    IN  IF (2 * num_rand_blocks + 5) <= nb
        THEN [plan_from_length |->
                 <<(2 * num_rand_blocks + 5) * from_block_size, from_seq_length>>,
              plan_num_rand_blocks |-> <<num_rand_blocks, 0>>]
        ELSE IF (num_rand_blocks + 5) <= nb
        THEN [plan_from_length |->
                 <<(num_rand_blocks + 5) * from_block_size, from_seq_length>>,
              plan_num_rand_blocks |->
                 <<FloorDiv(num_rand_blocks, 2),
                   num_rand_blocks - FloorDiv(num_rand_blocks, 2)>>]
        ELSE [plan_from_length |-> <<from_seq_length>>,
              plan_num_rand_blocks |-> <<num_rand_blocks>>]

\* the plan with the whole budget given to the second segment as well
plan_budget_twice(from_seq_length, from_block_size, num_rand_blocks) ==
    LET nb == FloorDiv(from_seq_length, from_block_size)
    IN  IF (2 * num_rand_blocks + 5) < nb
        THEN [plan_from_length |->
                 <<(2 * num_rand_blocks + 5) * from_block_size, from_seq_length>>,
              plan_num_rand_blocks |-> <<num_rand_blocks, 0>>]
        ELSE IF (num_rand_blocks + 5) < nb
        THEN [plan_from_length |->
                 <<(num_rand_blocks + 5) * from_block_size, from_seq_length>>,
              plan_num_rand_blocks |->
                 <<FloorDiv(num_rand_blocks, 2), num_rand_blocks>>]
        ELSE [plan_from_length |-> <<from_seq_length>>,
              plan_num_rand_blocks |-> <<num_rand_blocks>>]

get_rand_attn_plan(from_seq_length, from_block_size, num_rand_blocks) ==
    LET nb == FloorDiv(from_seq_length, from_block_size)
    IN  IF (2 * num_rand_blocks + 5) < nb
        THEN [plan_from_length |->
                 <<(2 * num_rand_blocks + 5) * from_block_size, from_seq_length>>,
              plan_num_rand_blocks |-> <<num_rand_blocks, 0>>]
        ELSE IF (num_rand_blocks + 5) < nb
        THEN [plan_from_length |->
                 <<(num_rand_blocks + 5) * from_block_size, from_seq_length>>,
              plan_num_rand_blocks |->
                 <<FloorDiv(num_rand_blocks, 2),
                   num_rand_blocks - FloorDiv(num_rand_blocks, 2)>>]
        ELSE [plan_from_length |-> <<from_seq_length>>,
              plan_num_rand_blocks |-> <<num_rand_blocks>>]

(***************************************************************************)
(* np.random: one generator for the whole process.  Seeded with an integer *)
(* it is a deterministic stream (a small linear congruential stream stands *)
(* for MT19937) driving numpy's Fisher-Yates shuffle; seeded with None it  *)
(* is reseeded from OS entropy and every permutation is possible.          *)
(***************************************************************************)
NextWord(x) == (5 * x + 3) % 16

\* the seed not handed on: np.random.seed(None)
seed_dropped(seed) == [seeded |-> FALSE, x |-> 0]

\* np.random.seed(seed)
np_random_seed(seed) ==
    IF seed = NoSeed THEN [seeded |-> FALSE, x |-> 0]
    ELSE [seeded |-> TRUE, x |-> seed % 16]

\* the shuffle of np.random.permutation: for i = n-1 .. 1 swap a[i], a[j],
\* j drawn in 0..i from the stream (i is 0-based)
RECURSIVE Shuffle(_, _, _)
Shuffle(a, i, x) ==
    IF i < 1 THEN [perm |-> a, x |-> x]
    ELSE LET y == NextWord(x)
             j == (y * (i + 1)) \div 16
             b == [c \in 1..Len(a) |->
                     IF c = i + 1 THEN a[j + 1]
                     ELSE IF c = j + 1 THEN a[i + 1] ELSE a[c]]
         IN  Shuffle(b, i - 1, y)

\* every ordering of list
AllOrders(list) ==
    {[i \in 1..Len(list) |-> list[p[i]]] : p \in Permutations(1..Len(list))}

\* np.random.permutation(list) in generator state g: the possible
\* (permutation, next generator state) pairs
np_random_permutation(g, list) ==
    IF g.seeded
    THEN LET s == Shuffle(list, Len(list) - 1, g.x)
         IN  {[perm |-> s.perm, rng |-> [seeded |-> TRUE, x |-> s.x]]}
    ELSE {[perm |-> p, rng |-> g] : p \in AllOrders(list)}

(***************************************************************************)
(* _get_single_block_row_attention                                         *)
(***************************************************************************)
\* the illegal blocks without the window of the query block
illegal_blocks_no_window(block_id, to_end_block_id) ==
    (0..(global_block_left - 1))
    \cup ((to_end_block_id - global_block_right)..(to_end_block_id - 1))
    \cup (IF block_id = 1 THEN {to_end_block_id - 2} ELSE {})
    \cup (IF block_id = to_end_block_id - 2 THEN {1} ELSE {})

illegal_blocks(block_id, to_end_block_id) ==
    ((block_id - window_block_left)..(block_id + window_block_right))
    \cup (0..(global_block_left - 1))
    \cup ((to_end_block_id - global_block_right)..(to_end_block_id - 1))
    \cup (IF block_id = 1 THEN {to_end_block_id - 2} ELSE {})
    \cup (IF block_id = to_end_block_id - 2 THEN {1} ELSE {})

\* the loop stopping at the first selected block
RECURSIVE SelectLoopFirst(_, _, _, _, _)
SelectLoopFirst(perm_block, illegal, num_rand_blocks, i, selected) ==
    IF i > Len(perm_block) THEN selected
    ELSE LET sel == IF perm_block[i] \notin illegal
                    THEN Append(selected, perm_block[i])
                    ELSE selected
         IN  IF Len(sel) = Min(num_rand_blocks, 1) THEN sel
             ELSE SelectLoopFirst(perm_block, illegal, num_rand_blocks, i + 1, sel)

\* the loop over perm_block: append the legal blocks, stop as soon as
\* num_rand_blocks of them are selected (the test follows the append)
RECURSIVE SelectLoop(_, _, _, _, _)
SelectLoop(perm_block, illegal, num_rand_blocks, i, selected) ==
    IF i > Len(perm_block) THEN selected
    ELSE LET sel == IF perm_block[i] \notin illegal
                    THEN Append(selected, perm_block[i])
                    ELSE selected
         IN  IF Len(sel) = num_rand_blocks THEN sel
             ELSE SelectLoop(perm_block, illegal, num_rand_blocks, i + 1, sel)

\* the value returned for the drawn permutation perm_block of
\* np.arange(to_start_block_id, to_end_block_id)
get_single_block_row_attention(perm_block, block_id, to_end_block_id, num_rand_blocks) ==
    SelectLoop(perm_block, illegal_blocks(block_id, to_end_block_id),
               num_rand_blocks, 1, <<>>)

\* one call in generator state g: the possible (row, next generator state)
RowDraws(g, block_id, to_start_block_id, to_end_block_id, num_rand_blocks) ==
    {[sel |-> get_single_block_row_attention(d.perm, block_id, to_end_block_id,
                                             num_rand_blocks),
      rng |-> d.rng] :
        d \in np_random_permutation(g, arange(to_start_block_id, to_end_block_id))}

(***************************************************************************)
(* _bigbird_block_rand_mask_with_head: the calls its loops make, in order. *)
(***************************************************************************)
\* plan_block_length = np.array(plan_from_length) // from_block_size
plan_block_length(p, from_block_size) ==
    [i \in 1..Len(p.plan_from_length) |->
        FloorDiv(p.plan_from_length[i], from_block_size)]

\* plan_from_length.index(from_seq_length)
max_plan_idx(p, from_seq_length) ==
    (CHOOSE i \in 1..Len(p.plan_from_length) :
        /\ p.plan_from_length[i] = from_seq_length
        /\ \A j \in 1..(i - 1) : p.plan_from_length[j] # from_seq_length) - 1

\* for blk_rw_idx in range(from, to): for h in range(num_heads): one call
RowLoop(phase, from, to, num_heads, lo, hi, ts, te, n) ==
    [j \in 1..(Max(to - from, 0) * num_heads) |->
        [phase |-> phase,
         blk_rw_idx |-> from + ((j - 1) \div num_heads),
         h |-> (j - 1) % num_heads,
         lo |-> lo, hi |-> hi,
         to_start_block_id |-> ts, to_end_block_id |-> te,
         num_rand_blocks |-> n]]

\* the columns of this segment counted from 0
PrevCallsFromZero(pnr, pbl, num_heads, plan_idx) ==
    IF plan_idx > 0 /\ pnr[plan_idx + 1] > 0
    THEN RowLoop("prev", global_block_top, pbl[plan_idx], num_heads,
                 0, pnr[plan_idx + 1],
                 pbl[plan_idx], pbl[plan_idx + 1], pnr[plan_idx + 1])
    ELSE <<>>

\* lines 929-945: the rows of the earlier segments get their columns of
\* this segment
PrevCalls(pnr, pbl, num_heads, plan_idx) ==
    IF plan_idx > 0 /\ pnr[plan_idx + 1] > 0
    THEN RowLoop("prev", global_block_top, pbl[plan_idx], num_heads,
                 SumTo(pnr, plan_idx), SumTo(pnr, plan_idx + 1),
                 pbl[plan_idx], pbl[plan_idx + 1], pnr[plan_idx + 1])
    ELSE <<>>

\* lines 947-969: the rows of this segment get their columns of each
\* earlier segment pl_id
RECURSIVE EarlierCalls(_, _, _, _, _)
EarlierCalls(pnr, pbl, num_heads, plan_idx, pl_id) ==
    IF pl_id >= plan_idx THEN <<>>
    ELSE (IF pnr[pl_id + 1] = 0 THEN <<>>
          ELSE RowLoop("earlier", pbl[plan_idx], pbl[plan_idx + 1], num_heads,
                       IF pl_id > 0 THEN SumTo(pnr, pl_id) ELSE 0,
                       SumTo(pnr, pl_id + 1),
                       IF pl_id > 0 THEN pbl[pl_id] ELSE 0,
                       pbl[pl_id + 1], pnr[pl_id + 1]))
         \o EarlierCalls(pnr, pbl, num_heads, plan_idx, pl_id + 1)

\* the rows of this segment drawing up to the end of the sequence
CurrentCallsToSequenceEnd(pnr, pbl, num_heads, plan_idx) ==
    IF pnr[plan_idx + 1] = 0 THEN <<>>
    ELSE RowLoop("current",
                 IF plan_idx > 0 THEN pbl[plan_idx] ELSE global_block_top,
                 pbl[plan_idx + 1], num_heads,
                 IF plan_idx > 0 THEN SumTo(pnr, plan_idx) ELSE 0,
                 SumTo(pnr, plan_idx + 1),
                 IF plan_idx > 0 THEN pbl[plan_idx] ELSE 0,
                 pbl[Len(pbl)], pnr[plan_idx + 1])

\* lines 971-994: the rows of this segment get their columns of this segment
CurrentCalls(pnr, pbl, num_heads, plan_idx) ==
    IF pnr[plan_idx + 1] = 0 THEN <<>>
    ELSE RowLoop("current",
                 IF plan_idx > 0 THEN pbl[plan_idx] ELSE global_block_top,
                 pbl[plan_idx + 1], num_heads,
                 IF plan_idx > 0 THEN SumTo(pnr, plan_idx) ELSE 0,
                 SumTo(pnr, plan_idx + 1),
                 IF plan_idx > 0 THEN pbl[plan_idx] ELSE 0,
                 pbl[plan_idx + 1], pnr[plan_idx + 1])

\* for plan_idx in range(max_plan_idx+1)
RECURSIVE PlanLoop(_, _, _, _, _)
PlanLoop(pnr, pbl, num_heads, plan_idx, last_idx) ==
    IF plan_idx > last_idx THEN <<>>
    ELSE PrevCalls(pnr, pbl, num_heads, plan_idx)
         \o EarlierCalls(pnr, pbl, num_heads, plan_idx, 0)
         \o CurrentCalls(pnr, pbl, num_heads, plan_idx)
         \o PlanLoop(pnr, pbl, num_heads, plan_idx + 1, last_idx)

Schedule(c, p) ==
    PlanLoop(p.plan_num_rand_blocks, plan_block_length(p, c.block_size),
             c.heads, 0, max_plan_idx(p, c.seq_len))

num_blocks(c) == FloorDiv(c.seq_len, c.block_size)

\* rand_attn = [np.zeros((num_blocks, np.sum(plan_num_rand_blocks[:max_plan_idx+1])))
\*              for i in range(num_heads)]
InitRandAttn(c, p) ==
    [h \in 0..(c.heads - 1) |->
        [b \in 0..(num_blocks(c) - 1) |->
            zeros(SumTo(p.plan_num_rand_blocks, max_plan_idx(p, c.seq_len) + 1))]]

\* only the row of block 0 removed
strip_top_only(c, ra) ==
    [h \in 0..(c.heads - 1) |->
        [j \in 1..Max(num_blocks(c) - global_block_top, 0) |->
            ra[h][global_block_top + j - 1]]]

\* rand_attn[nh][global_block_top:num_blocks - global_block_bottom, :]
StripGlobalRows(c, ra) ==
    [h \in 0..(c.heads - 1) |->
        [j \in 1..Max(num_blocks(c) - global_block_bottom - global_block_top, 0) |->
            ra[h][global_block_top + j - 1]]]

(***************************************************************************)
(* Configurations and the initial state.                                   *)
(***************************************************************************)
Seeds == {NoSeed} \cup (0..MaxSeed)

Configs ==
    {c \in [seq_len : 1..(MaxBlocks * MaxBlockSize), block_size : 1..MaxBlockSize,
            r : 0..MaxRand, heads : 1..MaxHeads, seed : Seeds] :
        /\ num_blocks(c) <= MaxBlocks
        /\ c.heads * num_blocks(c) * c.r <= MaxCells}

\* the concrete scenario of the specification: 512 tokens in 8 blocks of 64,
\* two random blocks, two heads
Scenarios ==
    {[seq_len |-> 512, block_size |-> 64, r |-> 2, heads |-> 2, seed |-> s] :
        s \in Seeds}

\* the arguments of every call of _get_single_block_row_attention that the
\* invocations of the model can make
CallArgs ==
    UNION {{<<q.blk_rw_idx, q.to_start_block_id, q.to_end_block_id, q.num_rand_blocks>> :
              q \in Range(Schedule(c, get_rand_attn_plan(c.seq_len, c.block_size, c.r)))} :
           c \in {x \in Configs \cup Scenarios : PyMod(x.seq_len, x.block_size) = 0}}

\* the unseeded generator's draws do not depend on its state: RowDraws of
\* each call, computed once
EntropyRows ==
    {<<a, RowDraws(np_random_seed(NoSeed), a[1], a[2], a[3], a[4])>> : a \in CallArgs}

\* RowDraws(g, ...), read from EntropyRows when g is unseeded
RowDrawsOf(g, block_id, to_start_block_id, to_end_block_id, num_rand_blocks) ==
    LET a == <<block_id, to_start_block_id, to_end_block_id, num_rand_blocks>>
    IN  IF ~g.seeded /\ a \in CallArgs
        THEN (CHOOSE t \in EntropyRows : t[1] = a)[2]
        ELSE RowDraws(g, block_id, to_start_block_id, to_end_block_id, num_rand_blocks)

\* the smallest configuration whose half-split plan returns: 21 blocks with a
\* budget of 8 (seeded runs only)
StagedConfigs ==
    {[seq_len |-> 21 * b, block_size |-> b, r |-> 8, heads |-> 1, seed |-> s] :
        b \in 1..MaxBlockSize, s \in 0..MaxSeed}

\* 10 and 11 blocks with a budget of 2: the plan (2r+5, r), (B, 0) with rows
\* beyond its first segment (seeded runs only)
LongConfigs ==
    {[seq_len |-> nb * b, block_size |-> b, r |-> 2, heads |-> 1, seed |-> s] :
        nb \in {10, 11}, b \in 1..MaxBlockSize, s \in 0..MaxSeed}

NoCfg == [seq_len |-> 0, block_size |-> 1, r |-> 0, heads |-> 1, seed |-> NoSeed]
NoPlan == [plan_from_length |-> <<>>, plan_num_rand_blocks |-> <<>>]
NoArgs == [from_seq_length |-> 0, from_block_size |-> 1, num_rand_blocks |-> 0]
NoRet == [kind |-> "none", plan |-> NoPlan]
NoRowArgs == [block_id |-> 0, to_start_block_id |-> 0, to_end_block_id |-> 0,
              num_rand_blocks |-> 0]
NoRowRet == [kind |-> "none", perm_block |-> <<>>, selected |-> <<>>]
NoInputs == [attention_mask |-> <<>>, band_mask |-> <<>>,
             output_attentions |-> FALSE, grad_enabled |-> FALSE]

InitCommon ==
    /\ plan = [k \in Inv |-> NoPlan]
    /\ calls = [k \in Inv |-> <<>>]
    /\ rand_attn = [k \in Inv |-> <<>>]
    /\ step = [k \in Inv |-> 0]
    /\ result = [k \in Inv |-> <<>>]
    /\ err = [k \in Inv |-> ""]
    /\ stored = [k \in Inv |-> {}]
    /\ rng = [seeded |-> FALSE, x |-> 0]
    /\ context = [k \in Inv |-> <<>>]
    /\ probs = [k \in Inv |-> <<>>]
    /\ rand_mask = [k \in Inv |-> <<>>]
    /\ gathered_key = [k \in Inv |-> <<>>]

\* one invocation of forward on a freshly constructed module
Init ==
    /\ InitCommon
    /\ \E c \in Configs \cup Scenarios \cup StagedConfigs \cup LongConfigs :
          cfg = [k \in Inv |-> IF k = 1 THEN c ELSE NoCfg]
    /\ pc = [k \in Inv |-> IF k = 1 THEN "ready" ELSE "absent"]
    /\ plan_args = NoArgs
    /\ plan_ret = NoRet
    /\ row_args = NoRowArgs
    /\ row_ret = NoRowRet
    /\ inputs = [k \in Inv |-> NoInputs]

(***************************************************************************)
(* forward, up to the allocation of rand_attn in                           *)
(* _bigbird_block_rand_mask_with_head.                                     *)
(***************************************************************************)
Invoke(k) ==
    /\ pc[k] = "ready"
    /\ cfg[k].seq_len \notin OldPlanLengths
    /\ stored' = [stored EXCEPT ![k] = @ \cup {"hs", "bm", "fm", "tm", "fbm", "tbm"}]
    /\ IF PyMod(cfg[k].seq_len, cfg[k].block_size) # 0
       THEN /\ pc' = [pc EXCEPT ![k] = "error"]
            /\ err' = [err EXCEPT ![k] = "AssertionError"]
            /\ UNCHANGED <<plan, calls, rand_attn, rng>>
       ELSE LET p == get_rand_attn_plan(cfg[k].seq_len, cfg[k].block_size, cfg[k].r)
            IN  /\ rng' = np_random_seed(cfg[k].seed)
                /\ plan' = [plan EXCEPT ![k] = p]
                /\ IF cfg[k].seq_len \in Range(p.plan_from_length)
                   THEN /\ rand_attn' = [rand_attn EXCEPT ![k] = InitRandAttn(cfg[k], p)]
                        /\ calls' = [calls EXCEPT ![k] = Schedule(cfg[k], p)]
                        /\ pc' = [pc EXCEPT ![k] = "sampling"]
                        /\ err' = err
                   ELSE /\ pc' = [pc EXCEPT ![k] = "error"]
                        /\ err' = [err EXCEPT ![k] = "AssertionError"]
                        /\ UNCHANGED <<rand_attn, calls>>
    /\ UNCHANGED <<cfg, step, result, plan_args, plan_ret, row_vars, attn_vars>>

(***************************************************************************)
(* One iteration of a row loop of _bigbird_block_rand_mask_with_head: the  *)
(* call of _get_single_block_row_attention and the slice assignment.       *)
(***************************************************************************)
NextCall(k) == calls[k][step[k] + 1]

FillRow(k) ==
    /\ LET c == NextCall(k)
       IN  \E d \in RowDrawsOf(rng, c.blk_rw_idx, c.to_start_block_id,
                             c.to_end_block_id, c.num_rand_blocks) :
              LET a == AssignSlice(rand_attn[k][c.h][c.blk_rw_idx], c.lo, c.hi, d.sel)
              IN  /\ rng' = d.rng
                  /\ IF a.ok
                     THEN /\ rand_attn' = [rand_attn EXCEPT ![k][c.h][c.blk_rw_idx] = a.row]
                          /\ step' = [step EXCEPT ![k] = @ + 1]
                          /\ UNCHANGED <<pc, err>>
                     ELSE /\ pc' = [pc EXCEPT ![k] = "error"]
                          /\ err' = [err EXCEPT ![k] = "ValueError"]
                          /\ UNCHANGED <<rand_attn, step>>
    /\ UNCHANGED <<cfg, plan, calls, result, stored, plan_args, plan_ret, row_vars, attn_vars>>

AtCall(k, phase) ==
    /\ pc[k] = "sampling"
    /\ step[k] < Len(calls[k])
    /\ NextCall(k).phase = phase

\* lines 932-945
FillPrevRows(k) ==
    /\ AtCall(k, "prev")
    /\ FillRow(k)

\* lines 947-969
FillEarlierSegments(k) ==
    /\ AtCall(k, "earlier")
    /\ FillRow(k)

\* lines 982-994
FillCurrentSegment(k) ==
    /\ AtCall(k, "current")
    /\ FillRow(k)

\* lines 996-1000: the rows of the global blocks are dropped, the list returns
ReturnRandAttn(k) ==
    /\ pc[k] = "sampling"
    /\ step[k] = Len(calls[k])
    /\ result' = [result EXCEPT ![k] = StripGlobalRows(cfg[k], rand_attn[k])]
    /\ pc' = [pc EXCEPT ![k] = "sampled"]
    /\ UNCHANGED <<cfg, plan, calls, rand_attn, step, err, stored, rng,
                   plan_args, plan_ret, row_vars, attn_vars>>

Next ==
    \E k \in Inv :
        \/ Invoke(k)
        \/ FillPrevRows(k)
        \/ FillEarlierSegments(k)
        \/ FillCurrentSegment(k)
        \/ ReturnRandAttn(k)

Spec == Init /\ [][Next]_vars

(***************************************************************************)
(* A direct call of _get_rand_attn_plan.                                   *)
(***************************************************************************)
PlanArgs ==
    [from_seq_length : 0..(MaxBlocks * MaxBlockSize),
     from_block_size : (-1)..MaxBlockSize,
     num_rand_blocks : 0..MaxRand]

InitPlan ==
    /\ InitCommon
    /\ cfg = [k \in Inv |-> NoCfg]
    /\ pc = [k \in Inv |-> "absent"]
    /\ plan_args \in PlanArgs
    /\ plan_ret = NoRet
    /\ row_args = NoRowArgs
    /\ row_ret = NoRowRet
    /\ inputs = [k \in Inv |-> NoInputs]

\* from_seq_length // 0 raises ZeroDivisionError; nothing else is checked
CallPlan ==
    /\ plan_ret.kind = "none"
    /\ plan_ret' =
          IF plan_args.from_block_size = 0
          THEN [kind |-> "ZeroDivisionError", plan |-> NoPlan]
          ELSE [kind |-> "plan",
                plan |-> get_rand_attn_plan(plan_args.from_seq_length,
                                            plan_args.from_block_size,
                                            plan_args.num_rand_blocks)]
    /\ UNCHANGED <<cfg, pc, plan, calls, rand_attn, step, result, err, stored, rng,
                   plan_args, row_vars, attn_vars>>

SpecPlan == InitPlan /\ [][CallPlan]_vars

(***************************************************************************)
(* A direct call of _get_single_block_row_attention, in any state of the   *)
(* generator.                                                              *)
(***************************************************************************)
RowArgs ==
    {a \in [block_id : 0..(MaxBlocks - 1), to_start_block_id : 0..2,
            to_end_block_id : 0..(MaxSpan + 2), num_rand_blocks : 0..MaxRand] :
        /\ a.to_start_block_id <= a.to_end_block_id
        /\ a.to_end_block_id - a.to_start_block_id <= MaxSpan}

\* the states the generator can be in: seeded from OS entropy, or anywhere
\* in a seeded stream
GeneratorStates ==
    {[seeded |-> FALSE, x |-> 0]} \cup {[seeded |-> TRUE, x |-> x] : x \in 0..15}

InitRow ==
    /\ plan = [k \in Inv |-> NoPlan]
    /\ calls = [k \in Inv |-> <<>>]
    /\ rand_attn = [k \in Inv |-> <<>>]
    /\ step = [k \in Inv |-> 0]
    /\ result = [k \in Inv |-> <<>>]
    /\ err = [k \in Inv |-> ""]
    /\ stored = [k \in Inv |-> {}]
    /\ inputs = [k \in Inv |-> NoInputs]
    /\ context = [k \in Inv |-> <<>>]
    /\ probs = [k \in Inv |-> <<>>]
    /\ rand_mask = [k \in Inv |-> <<>>]
    /\ gathered_key = [k \in Inv |-> <<>>]
    /\ cfg = [k \in Inv |-> NoCfg]
    /\ pc = [k \in Inv |-> "absent"]
    /\ plan_args = NoArgs
    /\ plan_ret = NoRet
    /\ rng \in GeneratorStates
    /\ row_args \in RowArgs
    /\ row_ret = NoRowRet

\* lines 1012-1043: the permutation is drawn, the loop selects from it
CallRow ==
    /\ row_ret.kind = "none"
    /\ \E d \in np_random_permutation(rng,
                  arange(row_args.to_start_block_id, row_args.to_end_block_id)) :
          /\ rng' = d.rng
          /\ row_ret' =
                [kind |-> "row",
                 perm_block |-> d.perm,
                 selected |-> get_single_block_row_attention(
                                  d.perm, row_args.block_id,
                                  row_args.to_end_block_id, row_args.num_rand_blocks)]
    /\ UNCHANGED <<cfg, pc, plan, calls, rand_attn, step, result, err, stored,
                   plan_args, plan_ret, row_args, attn_vars>>

SpecRow == InitRow /\ [][CallRow]_vars

(***************************************************************************)
(* Two invocations with the seeds BigBirdEncoder gives its layers, and     *)
(* other code of the process that uses np.random.                          *)
(***************************************************************************)
LayerConfigs == {c \in Configs : c.seed # NoSeed /\ PyMod(c.seq_len, c.block_size) = 0}

Sampling(k) == pc[k] = "sampling"

\* other code draws from, or reseeds, the process-wide generator
AmbientDraw ==
    /\ \A k \in Inv : ~Sampling(k)
    /\ \E k \in Inv : pc[k] = "ready"
    /\ \/ rng' = [rng EXCEPT !.x = NextWord(@)]
       \/ \E z \in 0..MaxSeed : rng' = np_random_seed(z + 7)
    /\ UNCHANGED <<cfg, pc, plan, calls, rand_attn, step, result, err, stored,
                   plan_args, plan_ret, row_vars, attn_vars>>

\* the same layer configuration invoked twice, one invocation after the other
InitSeq ==
    /\ InitCommon
    /\ \E c \in LayerConfigs : cfg = [k \in Inv |-> c]
    /\ pc = [k \in Inv |-> "ready"]
    /\ plan_args = NoArgs
    /\ plan_ret = NoRet
    /\ row_args = NoRowArgs
    /\ row_ret = NoRowRet
    /\ inputs = [k \in Inv |-> NoInputs]

InvokeAfter(k) ==
    /\ \A j \in Inv \ {k} : ~Sampling(j)
    /\ Invoke(k)

NextSeq ==
    \/ AmbientDraw
    \/ \E k \in Inv :
          \/ InvokeAfter(k)
          \/ FillPrevRows(k)
          \/ FillEarlierSegments(k)
          \/ FillCurrentSegment(k)
          \/ ReturnRandAttn(k)

SpecSeq == InitSeq /\ [][NextSeq]_vars

\* two invocations (two layers, two batches or two model instances) whose
\* steps interleave
InitConc ==
    /\ InitCommon
    /\ \E c \in LayerConfigs : \E s \in 0..MaxSeed :
          cfg = [k \in Inv |-> IF k = 1 THEN c ELSE [c EXCEPT !.seed = s]]
    /\ pc = [k \in Inv |-> "ready"]
    /\ plan_args = NoArgs
    /\ plan_ret = NoRet
    /\ row_args = NoRowArgs
    /\ row_ret = NoRowRet
    /\ inputs = [k \in Inv |-> NoInputs]

SpecConc == InitConc /\ [][Next]_vars

(***************************************************************************)
(* bigbird_block_sparse_attention after the sampler: torch tensors.        *)
(* One batch element; a weight is kept as the fact that it is positive, a  *)
(* context row as the set of key tokens whose values enter it (the empty   *)
(* set is the zero row).  A score with -10000.0 added has softmax weight 0 *)
(* next to a score without; when every score of a row has it, the row is   *)
(* the softmax of the scores themselves.                                   *)
(***************************************************************************)
RECURSIVE Prod(_)
Prod(shape) == IF Len(shape) = 0 THEN 1 ELSE Head(shape) * Prod(Tail(shape))

\* tensor.view(*shape) of a contiguous tensor of numel elements succeeds:
\* at most one dimension is -1 and it can be inferred, none is below -1,
\* and the sizes multiply to numel
view_ok(numel, shape) ==
    LET inferred == {i \in DOMAIN shape : shape[i] = -1}
        newsize == Prod([i \in DOMAIN shape |-> IF shape[i] = -1 THEN 1 ELSE shape[i]])
    IN  /\ \A i \in DOMAIN shape : shape[i] >= -1
        /\ Cardinality(inferred) <= 1
        /\ IF inferred = {} THEN numel = newsize
           ELSE newsize > 0 /\ numel % newsize = 0

\* s[lo:hi] of Python, negative bounds counted from the end
py_slice(s, lo, hi) ==
    LET norm(x) == IF x < 0 THEN Max(Len(s) + x, 0) ELSE Min(x, Len(s))
    IN  SubSeq(s, norm(lo) + 1, norm(hi))

RECURSIVE cat(_)
\* torch.cat of a list of sequences
cat(parts) == IF Len(parts) = 0 THEN <<>> ELSE Head(parts) \o cat(Tail(parts))

ones(n) == [i \in 1..Max(n, 0) |-> 1]

\* the token numbers 0..seq_len-1 in order: the rows of key_layer / value_layer
all_tokens(c) == [i \in 1..c.seq_len |-> i - 1]

\* blocked_key_matrix[:, :, b]: the tokens of block b, b < 0 from the end
blocked(c, b) ==
    LET bb == IF b < 0 THEN num_blocks(c) + b ELSE b
    IN  [i \in 1..c.block_size |-> bb * c.block_size + i - 1]

\* to_blocked_mask[:, b] of the attention mask m
blocked_mask(c, m, b) == [i \in 1..c.block_size |-> m[blocked(c, b)[i] + 1]]

\* t.view(d1, d2) of a contiguous tensor: row a holds the elements
\* (a-1)*d2 .. a*d2-1
view(flat, d1, d2) == [a \in 1..d1 |-> SubSeq(flat, (a - 1) * d2 + 1, a * d2)]

\* the gather with the indices of the adjacency read column by column
torch_gather_by_column(c, indices) ==
    LET width == IF Len(indices) = 0 THEN 0 ELSE Len(indices[1])
        flat == cat([j \in 1..width |-> [i \in 1..Len(indices) |-> indices[i][j]]])
    IN  cat([f \in 1..Len(flat) |-> blocked(c, flat[f])])

\* torch_gather_b2(blocked_key_matrix, rand_attn) for one head:
\* p2[i2.flatten()], the tokens of the blocks named by the flattened
\* adjacency, in its order
torch_gather_b2(c, indices) ==
    LET flat == cat(indices)
    IN  cat([f \in 1..Len(flat) |-> blocked(c, flat[f])])

\* the rand mask with the query rows of the blocks 0..B-3
create_rand_mask_from_zero(c, m, rand_attn_b) ==
    LET wn == c.block_size
        num_windows == num_blocks(c) - 2
        flat == cat([h \in 1..c.heads |-> cat(rand_attn_b[h - 1])])
        gathered_mask == cat([f \in 1..Len(flat) |-> blocked_mask(c, m, flat[f])])
        viewed == view(gathered_mask, c.heads * num_windows, c.r * wn)
    IN  [h \in 0..(c.heads - 1) |->
            [l \in 1..num_windows |->
                [qo \in 1..wn |->
                    [kk \in 1..(c.r * wn) |->
                        blocked_mask(c, m, l - 1)[qo]
                            * viewed[h * num_windows + l][kk]]]]]

\* _create_rand_mask_from_inputs: to_blocked_mask[rand_attn.flatten()] over
\* all heads, viewed as (h, B-2, r*wn), times from_blocked_mask[:, 1:-1]:
\* rand_mask[h][l][qo][kk]
create_rand_mask_from_inputs(c, m, rand_attn_b) ==
    LET wn == c.block_size
        num_windows == num_blocks(c) - 2
        flat == cat([h \in 1..c.heads |-> cat(rand_attn_b[h - 1])])
        gathered_mask == cat([f \in 1..Len(flat) |-> blocked_mask(c, m, flat[f])])
        viewed == view(gathered_mask, c.heads * num_windows, c.r * wn)
    IN  [h \in 0..(c.heads - 1) |->
            [l \in 1..num_windows |->
                [qo \in 1..wn |->
                    [kk \in 1..(c.r * wn) |->
                        blocked_mask(c, m, l)[qo]
                            * viewed[h * num_windows + l][kk]]]]]

\* the band mask with the key blocks taken one block to the left
band_mask_shifted(c, m) ==
    LET to_blocked_mask == [b \in 1..num_blocks(c) |-> blocked_mask(c, m, b - 1)]
        left == py_slice(to_blocked_mask, 0, 0 - 4)
        mid == py_slice(to_blocked_mask, 1, 0 - 3)
        right == py_slice(to_blocked_mask, 2, 0 - 2)
        exp_blocked_to_pad == [l \in DOMAIN left |-> left[l] \o mid[l] \o right[l]]
        from_rows == py_slice(to_blocked_mask, 2, 0 - 2)
    IN  [l \in DOMAIN from_rows |->
            [qo \in 1..c.block_size |->
                [kk \in DOMAIN exp_blocked_to_pad[l] |->
                    from_rows[l][qo] * exp_blocked_to_pad[l][kk]]]]

\* create_band_mask_from_inputs(blocked_encoder_mask, blocked_encoder_mask):
\* band_mask[l][qo][kk]
create_band_mask_from_inputs(c, m) ==
    LET to_blocked_mask == [b \in 1..num_blocks(c) |-> blocked_mask(c, m, b - 1)]
        left == py_slice(to_blocked_mask, 1, 0 - 3)
        mid == py_slice(to_blocked_mask, 2, 0 - 2)
        right == py_slice(to_blocked_mask, 3, 0 - 1)
        exp_blocked_to_pad == [l \in DOMAIN left |-> left[l] \o mid[l] \o right[l]]
        from_rows == py_slice(to_blocked_mask, 2, 0 - 2)
    IN  [l \in DOMAIN from_rows |->
            [qo \in 1..c.block_size |->
                [kk \in DOMAIN exp_blocked_to_pad[l] |->
                    from_rows[l][qo] * exp_blocked_to_pad[l][kk]]]]

\* the row of query token q inside the mask of its block
in_block(c, q) == (q % c.block_size) + 1

\* F.softmax(product + (1.0 - pad) * -10000.0): which weights are positive
softmax(pad) ==
    IF \E j \in DOMAIN pad : pad[j] = 1
    THEN [j \in DOMAIN pad |-> pad[j] = 1]
    ELSE [j \in DOMAIN pad |-> TRUE]

\* einsum of a weight row with a value matrix: the tokens whose values enter
einsum(weights, values) == {values[j] : j \in {i \in DOMAIN weights : weights[i]}}

minimum(a, b) == [j \in DOMAIN a |-> Min(a[j], b[j])]

\* to_mask[:, :, :, -wn:]
to_mask_last(c, m, nblk) == py_slice(m, 0 - nblk * c.block_size, Len(m))

\* lines 575-583, query block 0: q[0] x (k[0], k[1], k[2], ...); t holds the
\* tensors of one head: band_mask, rand_mask, gathered_key
first_attn_weights(c, m, t, q) == softmax(m)

first_context_layer(c, m, t, q) ==
    einsum(first_attn_weights(c, m, t, q), all_tokens(c))

\* lines 592-614, query block 1 with gathered_key[:, :, 0]
second_key_mat(c, t) ==
    cat(<<blocked(c, 0), blocked(c, 1), blocked(c, 2), blocked(c, -1),
          t.gathered_key[1]>>)

second_attn_weights(c, m, t, q) ==
    LET second_seq_pad ==
            cat(<<py_slice(m, 0, 3 * c.block_size), to_mask_last(c, m, 1),
                  ones(c.r * c.block_size)>>)
        second_rand_pad ==
            ones(4 * c.block_size) \o t.rand_mask[1][in_block(c, q)]
    IN  softmax(minimum(second_seq_pad, second_rand_pad))

second_context_layer(c, m, t, q) ==
    einsum(second_attn_weights(c, m, t, q), second_key_mat(c, t))

\* lines 624-696, query blocks 2..B-3: l = block - 2 indexes the middle
\* blocks, band_mask[l], rand_mask[:, :, 1:-1][l], gathered_key[:, :, 1:-1][l]
attn_weights(c, m, t, q) ==
    LET l == (q \div c.block_size) - 2
    IN  softmax(cat(<<py_slice(m, 0, c.block_size),
                      t.band_mask[l + 1][in_block(c, q)],
                      py_slice(t.rand_mask, 1, 0 - 1)[l + 1][in_block(c, q)],
                      to_mask_last(c, m, 1)>>))

\* the context of a middle block with the values of gathered_value[:, :, :-2]
context_layer_first_rows(c, m, t, q) ==
    LET l == (q \div c.block_size) - 2
        wn == c.block_size
        w == attn_weights(c, m, t, q)
        exp_blocked_value_matrix ==
            cat(<<blocked(c, l + 1), blocked(c, l + 2), blocked(c, l + 3)>>)
    IN  einsum(py_slice(w, wn, 4 * wn), exp_blocked_value_matrix)
        \cup einsum(py_slice(w, 4 * wn, 0 - wn),
                    py_slice(t.gathered_key, 0, 0 - 2)[l + 1])
        \cup einsum(py_slice(w, 0, wn), blocked(c, 0))
        \cup einsum(py_slice(w, 0 - wn, Len(w)), blocked(c, -1))

context_layer(c, m, t, q) ==
    LET l == (q \div c.block_size) - 2
        wn == c.block_size
        w == attn_weights(c, m, t, q)
        exp_blocked_value_matrix ==
            cat(<<blocked(c, l + 1), blocked(c, l + 2), blocked(c, l + 3)>>)
    IN  einsum(py_slice(w, wn, 4 * wn), exp_blocked_value_matrix)
        \cup einsum(py_slice(w, 4 * wn, 0 - wn),
                    py_slice(t.gathered_key, 1, 0 - 1)[l + 1])
        \cup einsum(py_slice(w, 0, wn), blocked(c, 0))
        \cup einsum(py_slice(w, 0 - wn, Len(w)), blocked(c, -1))

\* lines 704-727, query block B-2 with gathered_key[:, :, -1]
second_last_key_mat(c, t) ==
    cat(<<blocked(c, 0), blocked(c, -3), blocked(c, -2), blocked(c, -1),
          t.gathered_key[Len(t.gathered_key)]>>)

\* the weights of block B-2 with the padding of query block 1
second_last_pad_as_second(c, m, t, q) ==
    LET second_last_seq_pad ==
            cat(<<py_slice(m, 0, 3 * c.block_size), to_mask_last(c, m, 1),
                  ones(c.r * c.block_size)>>)
        second_last_rand_pad ==
            ones(4 * c.block_size)
                \o t.rand_mask[Len(t.rand_mask)][in_block(c, q)]
    IN  softmax(minimum(second_last_seq_pad, second_last_rand_pad))

second_last_attn_weights(c, m, t, q) ==
    LET second_last_seq_pad ==
            cat(<<py_slice(m, 0, c.block_size), to_mask_last(c, m, 3),
                  ones(c.r * c.block_size)>>)
        second_last_rand_pad ==
            ones(4 * c.block_size)
                \o t.rand_mask[Len(t.rand_mask)][in_block(c, q)]
    IN  softmax(minimum(second_last_seq_pad, second_last_rand_pad))

second_last_context_layer(c, m, t, q) ==
    einsum(second_last_attn_weights(c, m, t, q), second_last_key_mat(c, t))

\* lines 736-744, query block B-1: q[-1] x (k[0], k[1], k[2], ...)
last_attn_weights(c, m, t, q) == softmax(m)

last_context_layer(c, m, t, q) ==
    einsum(last_attn_weights(c, m, t, q), all_tokens(c))

\* the context row of query token q in the partial layer named
partial_context(name, c, m, t, q) ==
    CASE name = "fcl" -> first_context_layer(c, m, t, q)
      [] name = "scl" -> second_context_layer(c, m, t, q)
      [] name = "cl" -> context_layer(c, m, t, q)
      [] name = "slcl" -> second_last_context_layer(c, m, t, q)
      [] name = "last" -> last_context_layer(c, m, t, q)

\* the context rows of the query blocks from..to-1 of one head, in order
block_rows(c, m, t, from, to, name) ==
    [x \in 1..(Max(to - from, 0) * c.block_size) |->
        partial_context(name, c, m, t, from * c.block_size + x - 1)]

\* the product without the mask
from_mask_dropped(rows, m) == rows

\* line 750: context_layer.view((b, h, m, -1)) * from_mask
times_from_mask(rows, m) ==
    [t \in DOMAIN rows |-> IF m[t] = 1 THEN rows[t] ELSE {}]

\* row[lo:hi] = weights[:, wlo:whi] of lines 760-782 for one query row: a
\* cell holds the number of the weight column copied into it, 0 if none
put_weights(row, lo, hi, wlo) ==
    LET norm(x) == IF x < 0 THEN Max(Len(row) + x, 0) ELSE Min(x, Len(row))
    IN  [t \in DOMAIN row |->
            IF t > norm(lo) /\ t <= norm(hi) THEN wlo + (t - norm(lo)) ELSE row[t]]

\* attention_probs of lines 757-782 for the query token q of one head
attention_probs(c, q) ==
    LET wn == c.block_size
        n == c.seq_len
        blk == q \div c.block_size
        zero == zeros(n)
    IN  IF blk = 0 THEN put_weights(zero, 0, n, 0)
        ELSE IF blk = 1
        THEN put_weights(put_weights(zero, 0, 3 * wn, 0), 0 - wn, n, 3 * wn)
        ELSE IF blk = num_blocks(c) - 2
        THEN put_weights(put_weights(zero, 0, wn, 0), 0 - 3 * wn, n, wn)
        ELSE IF blk = num_blocks(c) - 1 THEN put_weights(zero, 0, n, 0)
        ELSE zero

\* the attention masks of n tokens with at most MaxMasked padding tokens
Masks(n) ==
    {m \in [1..n -> {0, 1}] : Cardinality({t \in 1..n : m[t] = 0}) <= MaxMasked}

\* the layers of an encoder on sequences of at most MaxTokens tokens
AttnConfigs == {c \in Configs : c.seed # NoSeed /\ c.seq_len <= MaxTokens}

\* one invocation of forward: its masks are those BigBirdModel.forward
\* derives from attention_mask; output_attentions and the autograd mode
\* (torch.no_grad() or not) are the caller's
InitAttn ==
    /\ InitCommon
    /\ \E c \in AttnConfigs :
          /\ cfg = [k \in Inv |-> IF k = 1 THEN c ELSE NoCfg]
          /\ \E m \in Masks(c.seq_len) : \E oa \in BOOLEAN : \E g \in BOOLEAN :
                inputs = [k \in Inv |->
                            IF k = 1
                            THEN [attention_mask |-> m, band_mask |-> <<>>,
                                  output_attentions |-> oa, grad_enabled |-> g]
                            ELSE NoInputs]
    /\ pc = [k \in Inv |-> IF k = 1 THEN "embedded" ELSE "absent"]
    /\ plan_args = NoArgs
    /\ plan_ret = NoRet
    /\ row_args = NoRowArgs
    /\ row_ret = NoRowRet

\* the number of elements of the stacked rand_attn of one batch element
rand_attn_numel(k) ==
    cfg[k].heads * Len(result[k][0])
        * SumTo(plan[k].plan_num_rand_blocks, max_plan_idx(plan[k], cfg[k].seq_len) + 1)

Fail(k, exception) ==
    /\ pc' = [pc EXCEPT ![k] = "error"]
    /\ err' = [err EXCEPT ![k] = exception]

\* BigBirdModel.forward, block_sparse: the sequence length is asserted to
\* be a multiple of the block size and the band mask is derived from the
\* blocked attention mask
CreateMasks(k) ==
    /\ pc[k] = "embedded"
    /\ IF PyMod(cfg[k].seq_len, cfg[k].block_size) = 0
       THEN /\ inputs' = [inputs EXCEPT ![k].band_mask =
                             create_band_mask_from_inputs(cfg[k],
                                                          inputs[k].attention_mask)]
            /\ pc' = [pc EXCEPT ![k] = "ready"]
            /\ err' = err
       ELSE /\ inputs' = inputs
            /\ Fail(k, "AssertionError")
    /\ UNCHANGED <<cfg, plan, calls, rand_attn, step, result, stored, rng,
                   plan_args, plan_ret, row_vars, context, probs, rand_mask,
                   gathered_key>>

\* lines 543-554: rand_attn is stacked and kept on the module, rand_mask is
\* gathered from to_blocked_mask and viewed as (b, h, B-2, r*wm)
CreateRandMask(k) ==
    /\ pc[k] = "sampled"
    /\ IF view_ok(rand_attn_numel(k) * cfg[k].block_size,
                  <<cfg[k].heads, num_blocks(cfg[k]) - 2, cfg[k].r * cfg[k].block_size>>)
       THEN /\ stored' = [stored EXCEPT ![k] = @ \cup {"ran", "rand_mask"}]
            /\ rand_mask' = [rand_mask EXCEPT ![k] =
                                create_rand_mask_from_inputs(
                                    cfg[k], inputs[k].attention_mask, result[k])]
            /\ pc' = [pc EXCEPT ![k] = "masked"]
            /\ err' = err
       ELSE /\ stored' = [stored EXCEPT ![k] = @ \cup {"ran"}]
            /\ rand_mask' = rand_mask
            /\ Fail(k, "RuntimeError")
    /\ UNCHANGED <<cfg, plan, calls, rand_attn, step, result, rng,
                   plan_args, plan_ret, row_vars, inputs, context, probs,
                   gathered_key>>

\* lines 556-568: the key and value blocks of the adjacency are gathered and
\* viewed as (b, h, B-2, r*wn, -1)
GatherBlocks(k) ==
    /\ pc[k] = "masked"
    /\ IF view_ok(rand_attn_numel(k) * cfg[k].block_size,
                  <<cfg[k].heads, num_blocks(cfg[k]) - 2,
                    cfg[k].r * cfg[k].block_size, -1>>)
       THEN /\ stored' = [stored EXCEPT ![k] = @ \cup {"gk", "gv"}]
            /\ gathered_key' = [gathered_key EXCEPT ![k] =
                                   [h \in 0..(cfg[k].heads - 1) |->
                                       view(torch_gather_b2(cfg[k], result[k][h]),
                                            num_blocks(cfg[k]) - 2,
                                            cfg[k].r * cfg[k].block_size)]]
            /\ pc' = [pc EXCEPT ![k] = "gathered"]
            /\ err' = err
       ELSE /\ stored' = stored
            /\ gathered_key' = gathered_key
            /\ Fail(k, "RuntimeError")
    /\ UNCHANGED <<cfg, plan, calls, rand_attn, step, result, rng,
                   plan_args, plan_ret, row_vars, inputs, context, probs,
                   rand_mask>>

\* the rows of the query blocks from..to-1 for every head of invocation k
head_rows(k, from, to, name) ==
    [h \in 0..(cfg[k].heads - 1) |->
        block_rows(cfg[k], inputs[k].attention_mask,
                   [band_mask |-> inputs[k].band_mask,
                    rand_mask |-> rand_mask[k][h],
                    gathered_key |-> gathered_key[k][h]],
                   from, to, name)]

\* one of the five partial context layers is computed and kept on the
\* module; context[k][h] collects them in the order of the final torch.cat
Attend(k, then, attribute, rows) ==
    /\ context' = [context EXCEPT ![k] =
                      [h \in 0..(cfg[k].heads - 1) |->
                          (IF @ = <<>> THEN <<>> ELSE @[h]) \o rows[h]]]
    /\ stored' = [stored EXCEPT ![k] = @ \cup {attribute}]
    /\ pc' = [pc EXCEPT ![k] = then]
    /\ UNCHANGED <<cfg, plan, calls, rand_attn, step, result, err, rng,
                   plan_args, plan_ret, row_vars, inputs, probs, rand_mask,
                   gathered_key>>

\* lines 575-586
AttendFirst(k) ==
    /\ pc[k] = "gathered"
    /\ Attend(k, "first", "fcl", head_rows(k, 0, 1, "fcl"))

\* lines 592-617
AttendSecond(k) ==
    /\ pc[k] = "first"
    /\ Attend(k, "second", "scl", head_rows(k, 1, 2, "scl"))

\* lines 624-698
AttendMiddle(k) ==
    /\ pc[k] = "second"
    /\ Attend(k, "middle", "cl",
              head_rows(k, 2, num_blocks(cfg[k]) - 2, "cl"))

\* lines 704-730
AttendSecondLast(k) ==
    /\ pc[k] = "middle"
    /\ Attend(k, "second_last", "slcl",
              head_rows(k, num_blocks(cfg[k]) - 2, num_blocks(cfg[k]) - 1,
                        "slcl"))

\* lines 736-753: the last layer, the torch.cat of the five and the product
\* with from_mask
AttendLast(k) ==
    /\ pc[k] = "second_last"
    /\ LET rows == head_rows(k, num_blocks(cfg[k]) - 1, num_blocks(cfg[k]),
                             "last")
       IN  context' = [context EXCEPT ![k] =
                         [h \in 0..(cfg[k].heads - 1) |->
                             times_from_mask(@[h] \o rows[h],
                                             inputs[k].attention_mask)]]
    /\ stored' = [stored EXCEPT ![k] = @ \cup {"final_cl"}]
    /\ pc' = [pc EXCEPT ![k] = "attended"]
    /\ UNCHANGED <<cfg, plan, calls, rand_attn, step, result, err, rng,
                   plan_args, plan_ret, row_vars, inputs, probs, rand_mask,
                   gathered_key>>

\* lines 755-785: attention_probs is created with requires_grad=True and
\* written in place (an error of autograd unless grad mode is off); the
\* weights of the middle blocks, (b, h, B-4, wm, (5+r)*wn), are viewed as
\* (b, h, (B-4)*wm, n)
ScatterProbs(k) ==
    /\ pc[k] = "attended"
    /\ IF ~inputs[k].output_attentions
       THEN /\ pc' = [pc EXCEPT ![k] = "computed"]
            /\ UNCHANGED <<err, probs>>
       ELSE IF inputs[k].grad_enabled
       THEN /\ Fail(k, "RuntimeError")
            /\ probs' = probs
       ELSE IF ~view_ok(cfg[k].heads * (num_blocks(cfg[k]) - 4) * cfg[k].block_size
                            * (5 + cfg[k].r) * cfg[k].block_size,
                        <<cfg[k].heads,
                          (num_blocks(cfg[k]) - 4) * cfg[k].block_size,
                          cfg[k].seq_len>>)
       THEN /\ Fail(k, "RuntimeError")
            /\ probs' = probs
       ELSE /\ probs' = [probs EXCEPT ![k] =
                           [h \in 0..(cfg[k].heads - 1) |->
                               [t \in 1..cfg[k].seq_len |->
                                   attention_probs(cfg[k], t - 1)]]]
            /\ pc' = [pc EXCEPT ![k] = "computed"]
            /\ err' = err
    /\ UNCHANGED <<cfg, plan, calls, rand_attn, step, result, stored, rng,
                   plan_args, plan_ret, row_vars, inputs, context, rand_mask,
                   gathered_key>>

\* lines 459-462 and 788: forward returns its outputs
ReturnForward(k) ==
    /\ pc[k] = "computed"
    /\ pc' = [pc EXCEPT ![k] = "returned"]
    /\ UNCHANGED <<cfg, plan, calls, rand_attn, step, result, err, stored, rng,
                   plan_args, plan_ret, row_vars, attn_vars>>

NextAttn ==
    \E k \in Inv :
        \/ CreateMasks(k)
        \/ Invoke(k)
        \/ FillPrevRows(k)
        \/ FillEarlierSegments(k)
        \/ FillCurrentSegment(k)
        \/ ReturnRandAttn(k)
        \/ CreateRandMask(k)
        \/ GatherBlocks(k)
        \/ AttendFirst(k)
        \/ AttendSecond(k)
        \/ AttendMiddle(k)
        \/ AttendSecondLast(k)
        \/ AttendLast(k)
        \/ ScatterProbs(k)
        \/ ReturnForward(k)

SpecAttn == InitAttn /\ [][NextAttn]_vars

(***************************************************************************)
(* The old plans used in the paper: _bigbird_block_rand_mask, run once per *)
(* head on max_seqlen tokens when the sequence has 1024, 3072 or 4096      *)
(* tokens.                                                                 *)
(***************************************************************************)
max_seqlen == 4096
last_idx == 1024

\* the block sizes of the old plans: 64 is the default of the configuration
OldBlockSizes == {64, 128, 256, 512, 1024}

\* unseeded runs are followed through every draw for one head of one random
\* block on blocks of 512 tokens, seeded runs for every configuration
OldConfigs ==
    {c \in [seq_len : OldPlanLengths, block_size : OldBlockSizes,
            r : 0..MaxRand, heads : 1..MaxHeads, seed : Seeds] :
        c.seed = NoSeed => (c.block_size = 512 /\ c.r = 1 /\ c.heads = 1)}

\* the number of blocks _bigbird_block_rand_mask works on
old_blocks(c) == FloorDiv(max_seqlen, c.block_size)

\* lines 860-862: last
last_block(to_seq_length, to_block_size) ==
    IF last_idx > 2 * to_block_size
    THEN FloorDiv(last_idx, to_block_size) - 1
    ELSE FloorDiv(to_seq_length, to_block_size) - 1

\* lines 865-886: the blocks row i-1 is drawn from
middle_seq_slice(i, nb, last) ==
    LET middle_seq == arange(1, nb - 1)
        start == i - 2
        end == i
    IN  IF i = 1 THEN py_slice(middle_seq, 2, last)
        ELSE IF i = 2 THEN py_slice(middle_seq, 3, last)
        ELSE IF i = nb - 3 THEN py_slice(middle_seq, 0, last)
        ELSE IF i = nb - 2 THEN py_slice(middle_seq, 0, last)
        ELSE IF start > last THEN py_slice(middle_seq, 0, last)
        ELSE IF end + 1 = last THEN py_slice(middle_seq, 0, start)
        ELSE py_slice(middle_seq, 0, start) \o py_slice(middle_seq, end + 1, last)

InitOld ==
    /\ InitCommon
    /\ \E c \in OldConfigs :
          cfg = [k \in Inv |-> IF k = 1 THEN c ELSE NoCfg]
    /\ pc = [k \in Inv |-> IF k = 1 THEN "ready" ELSE "absent"]
    /\ plan_args = NoArgs
    /\ plan_ret = NoRet
    /\ row_args = NoRowArgs
    /\ row_ret = NoRowRet
    /\ inputs = [k \in Inv |-> NoInputs]

\* lines 431-444 and 520-528: forward on a sequence of 1024, 3072 or 4096
\* tokens seeds the generator and starts the list comprehension over heads
InvokeOld(k) ==
    /\ pc[k] = "ready"
    /\ cfg[k].seq_len \in OldPlanLengths
    /\ stored' = [stored EXCEPT ![k] = @ \cup {"hs", "bm", "fm", "tm", "fbm", "tbm"}]
    /\ IF PyMod(cfg[k].seq_len, cfg[k].block_size) # 0
       THEN /\ pc' = [pc EXCEPT ![k] = "error"]
            /\ err' = [err EXCEPT ![k] = "AssertionError"]
            /\ UNCHANGED <<rand_attn, rng>>
       ELSE /\ rng' = np_random_seed(cfg[k].seed)
            /\ rand_attn' = [rand_attn EXCEPT ![k] =
                                [h \in 0..(cfg[k].heads - 1) |->
                                    [i \in 1..(old_blocks(cfg[k]) - 2) |->
                                        zeros(cfg[k].r)]]]
            /\ pc' = [pc EXCEPT ![k] = "old_sampling"]
            /\ err' = err
    /\ UNCHANGED <<cfg, plan, calls, step, result, plan_args, plan_ret,
                   row_vars, attn_vars>>

\* one iteration of the loop of lines 865-886: step counts the rows filled,
\* head after head
OldFillRow(k) ==
    /\ pc[k] = "old_sampling"
    /\ step[k] < cfg[k].heads * (old_blocks(cfg[k]) - 2)
    /\ LET nb == old_blocks(cfg[k])
           h == step[k] \div (nb - 2)
           i == (step[k] % (nb - 2)) + 1
           pool == middle_seq_slice(i, nb, last_block(max_seqlen, cfg[k].block_size))
       IN  \E d \in np_random_permutation(rng, pool) :
              LET a == AssignSlice(rand_attn[k][h][i], 0, cfg[k].r,
                                   py_slice(d.perm, 0, cfg[k].r))
              IN  /\ rng' = d.rng
                  /\ IF a.ok
                     THEN /\ rand_attn' = [rand_attn EXCEPT ![k][h][i] = a.row]
                          /\ step' = [step EXCEPT ![k] = @ + 1]
                          /\ UNCHANGED <<pc, err>>
                     ELSE /\ pc' = [pc EXCEPT ![k] = "error"]
                          /\ err' = [err EXCEPT ![k] = "ValueError"]
                          /\ UNCHANGED <<rand_attn, step>>
    /\ UNCHANGED <<cfg, plan, calls, result, stored, plan_args, plan_ret,
                   row_vars, attn_vars>>

\* lines 523-527: each head keeps the rows [:(from_seq_length // wm - 2)]
OldReturn(k) ==
    /\ pc[k] = "old_sampling"
    /\ step[k] = cfg[k].heads * (old_blocks(cfg[k]) - 2)
    /\ result' = [result EXCEPT ![k] =
                     [h \in 0..(cfg[k].heads - 1) |->
                         py_slice(rand_attn[k][h], 0, num_blocks(cfg[k]) - 2)]]
    /\ pc' = [pc EXCEPT ![k] = "sampled"]
    /\ UNCHANGED <<cfg, plan, calls, rand_attn, step, err, stored, rng,
                   plan_args, plan_ret, row_vars, attn_vars>>

NextOld == \E k \in Inv : InvokeOld(k) \/ OldFillRow(k) \/ OldReturn(k)

SpecOld == InitOld /\ [][NextOld]_vars

(***************************************************************************)
(* Properties.                                                             *)
(***************************************************************************)
Returned(k) == pc[k] = "sampled"
Started(k) == pc[k] \notin {"absent", "ready"}
NumBlocks(k) == num_blocks(cfg[k])
Interior(k) == 1..(NumBlocks(k) - 2)
Heads(k) == 0..(cfg[k].heads - 1)
\* the adjacency row of head h and query block i in what the sampler returned
Row(k, h, i) == result[k][h][i - global_block_top + 1]
Distinct(row) == Cardinality(Range(row)) = Len(row)

\* the blocks query block i may pick over the whole sequence of nb blocks
LegalPool(i, nb) ==
    (0..(nb - 1)) \ ({0, nb - 1, i - 1, i, i + 1}
                     \cup (IF i = 1 THEN {nb - 2} ELSE {})
                     \cup (IF i = nb - 2 THEN {1} ELSE {}))

\* the sampler run alone from its own seed: every call draws from the
\* generator state the previous call left
RECURSIVE RunCalls(_, _, _, _)
RunCalls(cs, i, ra, g) ==
    IF i > Len(cs) THEN [ok |-> TRUE, ra |-> ra]
    ELSE LET c == cs[i]
             d == CHOOSE x \in RowDraws(g, c.blk_rw_idx, c.to_start_block_id,
                                        c.to_end_block_id, c.num_rand_blocks) : TRUE
             a == AssignSlice(ra[c.h][c.blk_rw_idx], c.lo, c.hi, d.sel)
         IN  IF a.ok
             THEN RunCalls(cs, i + 1, [ra EXCEPT ![c.h][c.blk_rw_idx] = a.row], d.rng)
             ELSE [ok |-> FALSE, ra |-> ra]

RunAlone(c) ==
    LET p == get_rand_attn_plan(c.seq_len, c.block_size, c.r)
        run == RunCalls(Schedule(c, p), 1, InitRandAttn(c, p), np_random_seed(c.seed))
    IN  [ok |-> run.ok, result |-> StripGlobalRows(c, run.ra)]

\* C1: on the planned path with at least 5 blocks, when the sampler has
\* returned, no entry of the row of any head h and interior query block i is
\* one of i-1, i, i+1, 0, B-1.
C1_WindowGlobalExclusion ==
    \A k \in Inv :
        (Returned(k) /\ NumBlocks(k) >= 5) =>
            \A h \in Heads(k) : \A i \in Interior(k) :
                Range(Row(k, h, i))
                  \cap {i - 1, i, i + 1, 0, NumBlocks(k) - 1} = {}

\* a two-segment plan has returned rows with entries
C1_Witness ==
    \E k \in Inv :
        /\ Returned(k) /\ NumBlocks(k) >= 5 /\ cfg[k].r >= 1
        /\ Len(plan[k].plan_from_length) = 2

C3_NoDuplicates ==
    \A k \in Inv :
        (Returned(k) /\ NumBlocks(k) >= 5) =>
            \A h \in Heads(k) : \A i \in Interior(k) : Distinct(Row(k, h, i))

\* C4: for seq_len=512, block_size=64, num_random_blocks=2, num_heads=2 the
\* invocation completes, and the rows of query blocks 1..6 hold exactly 2
\* distinct indices, none in {0,7} and none in the block's own window.
C4_Scenario ==
    \A k \in Inv :
        (Started(k) /\ cfg[k] \in Scenarios) =>
            /\ pc[k] # "error"
            /\ Returned(k) =>
                  \A h \in Heads(k) : \A i \in 1..6 :
                      /\ Len(Row(k, h, i)) = 2
                      /\ Distinct(Row(k, h, i))
                      /\ Range(Row(k, h, i)) \cap {0, 7, i - 1, i, i + 1} = {}

\* C5: two invocations, one after the other, with the same seed, seq_len,
\* block_size, num_random_blocks and num_heads return the same adjacency,
\* whatever other code drew from np.random before or between them.
C5_SameSeedSameAdjacency ==
    (Returned(1) /\ Returned(2) /\ cfg[1] = cfg[2]) => result[1] = result[2]

\* both invocations have returned rows with entries
C5_Witness ==
    /\ Returned(1) /\ Returned(2) /\ cfg[1] = cfg[2]
    /\ cfg[1].r >= 1 /\ NumBlocks(1) >= 6

\* C6: when the steps of two invocations interleave, each invocation that
\* returns has the adjacency it returns when run alone with its seed.
C6_NoInterference ==
    \A k \in Inv : Returned(k) => result[k] = RunAlone(cfg[k]).result

\* the plan as (segment end block, budget) pairs
Segments(p, from_block_size) ==
    [i \in 1..Len(p.plan_from_length) |->
        <<FloorDiv(p.plan_from_length[i], from_block_size), p.plan_num_rand_blocks[i]>>]

PlanReturned == plan_ret.kind = "plan" /\ plan_args.from_block_size > 0

\* C7: with B = seq_len // block_size the plan is (2r+5, r), (B, 0) if
\* 2r+5 < B; else (r+5, r div 2), (B, r - r div 2) if r+5 < B; else (B, r).
C7_PlanShape ==
    PlanReturned =>
        LET r == plan_args.num_rand_blocks
            B == plan_args.from_seq_length \div plan_args.from_block_size
            segs == Segments(plan_ret.plan, plan_args.from_block_size)
        IN  \/ 2 * r + 5 < B /\ segs = << <<2 * r + 5, r>>, <<B, 0>> >>
            \/ ~(2 * r + 5 < B) /\ r + 5 < B
                 /\ segs = << <<r + 5, r \div 2>>, <<B, r - (r \div 2)>> >>
            \/ ~(r + 5 < B) /\ segs = << <<B, r>> >>

\* a plan that splits the budget in two has been returned
C7_Witness ==
    /\ PlanReturned
    /\ plan_args.num_rand_blocks >= 2
    /\ Len(plan_ret.plan.plan_from_length) = 2
    /\ plan_ret.plan.plan_num_rand_blocks[2] > 0

\* C8: for seq_len a positive multiple of block_size the segment end blocks
\* of the plan increase strictly and the last one is B = seq_len / block_size.
C8_PlanMonotone ==
    (/\ PlanReturned
     /\ plan_args.from_seq_length > 0
     /\ plan_args.from_seq_length % plan_args.from_block_size = 0) =>
        LET segs == Segments(plan_ret.plan, plan_args.from_block_size)
        IN  /\ \A i \in 1..(Len(segs) - 1) : segs[i][1] < segs[i + 1][1]
            /\ segs[Len(segs)][1] =
                  plan_args.from_seq_length \div plan_args.from_block_size

\* a two-segment plan has been returned for a multiple of block_size
C8_Witness ==
    /\ PlanReturned
    /\ plan_args.from_seq_length > 0
    /\ plan_args.from_seq_length % plan_args.from_block_size = 0
    /\ plan_args.from_block_size > 1
    /\ Len(plan_ret.plan.plan_from_length) = 2

\* C9: the planner fails, and returns no plan, whenever block_size <= 0 or
\* seq_len is not a multiple of block_size.
C9_PlannerRejects ==
    (/\ plan_ret.kind # "none"
     /\ \/ plan_args.from_block_size <= 0
        \/ PyMod(plan_args.from_seq_length, plan_args.from_block_size) # 0) =>
        plan_ret.kind # "plan"

\* C10: an invocation on fewer than 5 blocks fails before any adjacency
\* sampling takes place.
C10_FewBlocksRejected ==
    \A k \in Inv :
        (Started(k) /\ NumBlocks(k) < 5) =>
            /\ pc[k] = "error"
            /\ rand_attn[k] = <<>>
            /\ step[k] = 0

\* C11: an invocation whose seq_len is no multiple of block_size fails before
\* any adjacency sampling and before anything of it is recorded on the module.
C11_NonMultipleRejected ==
    \A k \in Inv :
        (Started(k) /\ PyMod(cfg[k].seq_len, cfg[k].block_size) # 0) =>
            /\ pc[k] = "error"
            /\ step[k] = 0
            /\ stored[k] = {}

\* the blocks a call may pick: its target range without the illegal blocks
StagePool(c) ==
    (c.to_start_block_id..(c.to_end_block_id - 1))
        \ illegal_blocks(c.blk_rw_idx, c.to_end_block_id)

\* C12: an invocation in which some call requests more random blocks than
\* the call's legal pool holds never returns an adjacency.
C12_ShortPoolRejected ==
    \A k \in Inv :
        Returned(k) =>
            \A i \in 1..Len(calls[k]) :
                calls[k][i].num_rand_blocks <= Cardinality(StagePool(calls[k][i]))

\* the calls of invocation k that write cell (h, b, col), col 1-based
Writers(k, h, b, col) ==
    {i \in 1..Len(calls[k]) :
        /\ calls[k][i].h = h
        /\ calls[k][i].blk_rw_idx = b
        /\ calls[k][i].lo < col
        /\ col <= calls[k][i].hi}

\* C14: when the sampler returns on B >= 2 blocks, each head's result has
\* B-2 rows, row j (0-based) being the row of query block j+1, and a step
\* that fills a row changes the array of one head only.
C14_RowsPerHead ==
    [][\A k \in Inv :
          /\ (pc[k] = "sampling" /\ pc'[k] = "sampling") =>
                Cardinality({h \in Heads(k) : rand_attn'[k][h] # rand_attn[k][h]}) <= 1
          /\ (pc[k] = "sampling" /\ pc'[k] = "sampled" /\ NumBlocks(k) >= 2) =>
                \A h \in Heads(k) :
                    /\ Len(result'[k][h]) = NumBlocks(k) - 2
                    /\ \A j \in 0..(NumBlocks(k) - 3) :
                          result'[k][h][j + 1] = rand_attn[k][h][j + 1]
      ]_vars

\* two heads have returned rows with entries
C14_Witness ==
    \E k \in Inv :
        /\ Returned(k) /\ cfg[k].heads >= 2 /\ cfg[k].r >= 1 /\ NumBlocks(k) >= 6
        /\ \A h \in Heads(k) : \A i \in Interior(k) : Row(k, h, i)[1] # 0

\* C15: in the sampler every cell of an interior row is written by exactly
\* one call: a step never changes a cell that already holds a block, and at
\* return no cell of an interior row still holds its initial 0.
C15_WrittenOnce ==
    [][\A k \in Inv :
          /\ (pc[k] = "sampling" /\ pc'[k] = "sampling") =>
                \A h \in Heads(k) : \A b \in 0..(NumBlocks(k) - 1) :
                    \A col \in DOMAIN rand_attn[k][h][b] :
                        rand_attn[k][h][b][col] # 0 =>
                            rand_attn'[k][h][b][col] = rand_attn[k][h][b][col]
          /\ (pc[k] = "sampling" /\ pc'[k] = "sampled") =>
                \A h \in Heads(k) : \A b \in Interior(k) :
                    \A col \in DOMAIN rand_attn[k][h][b] :
                        /\ rand_attn[k][h][b][col] # 0
                        /\ Cardinality(Writers(k, h, b, col)) = 1
      ]_vars

\* a plan of two segments with a budget each has returned
C15_Witness ==
    \E k \in Inv :
        /\ Returned(k)
        /\ Len(plan[k].plan_num_rand_blocks) = 2
        /\ plan[k].plan_num_rand_blocks[1] > 0
        /\ plan[k].plan_num_rand_blocks[2] > 0

\* the legal pool of a direct call
RowPool ==
    (row_args.to_start_block_id..(row_args.to_end_block_id - 1))
        \ ({row_args.block_id - 1, row_args.block_id, row_args.block_id + 1,
            0, row_args.to_end_block_id - 1}
           \cup (IF row_args.block_id = 1 THEN {row_args.to_end_block_id - 2} ELSE {})
           \cup (IF row_args.block_id = row_args.to_end_block_id - 2 THEN {1} ELSE {}))

\* s is t with elements left out, order kept
RECURSIVE IsSubsequence(_, _)
IsSubsequence(s, t) ==
    IF Len(s) = 0 THEN TRUE
    ELSE IF Len(t) = 0 THEN FALSE
    ELSE IF s[1] = t[1] THEN IsSubsequence(Tail(s), Tail(t))
    ELSE IsSubsequence(s, Tail(t))

ForwardReturned(k) == pc[k] = "returned"
Valid(k) == PyMod(cfg[k].seq_len, cfg[k].block_size) = 0 /\ NumBlocks(k) >= 5
Tokens(k) == 0..(cfg[k].seq_len - 1)
BlockOf(k, t) == t \div cfg[k].block_size
AllValid(k) == \A t \in Tokens(k) : inputs[k].attention_mask[t + 1] = 1
\* the context row of head h and query token q
Context(k, h, q) == context[k][h][q + 1]
\* the window and global key blocks of query block i among nb blocks
WindowGlobal(i, nb) ==
    IF i \in {0, nb - 1} THEN 0..(nb - 1) ELSE {0, i - 1, i, i + 1, nb - 1}

\* C16: in the context that forward returns, the row of every query token
\* whose mask bit is 0 is all zeros, for every head.
C16_PaddedRowsZero ==
    \A k \in Inv :
        ForwardReturned(k) =>
            \A h \in Heads(k) : \A q \in Tokens(k) :
                inputs[k].attention_mask[q + 1] = 0 => Context(k, h, q) = {}

\* forward has returned for a mask with a padding token in a middle block
C16_Witness ==
    \E k \in Inv :
        /\ ForwardReturned(k)
        /\ \E q \in Tokens(k) :
              /\ inputs[k].attention_mask[q + 1] = 0
              /\ BlockOf(k, q) \in 2..(NumBlocks(k) - 3)
        /\ \E q \in Tokens(k) : Context(k, 0, q) # {}

\* C17: with num_random_blocks = 0 and at least 5 blocks the invocation
\* completes, and every query block attends to its window and global key
\* blocks and to nothing else.
C17_NoRandomBlocks ==
    \A k \in Inv :
        (Started(k) /\ Valid(k) /\ cfg[k].r = 0) =>
            /\ pc[k] # "error"
            /\ (ForwardReturned(k) /\ AllValid(k)) =>
                  \A h \in Heads(k) : \A q \in Tokens(k) :
                      {BlockOf(k, t) : t \in Context(k, h, q)}
                          = WindowGlobal(BlockOf(k, q), NumBlocks(k))

\* C18: with 5 blocks and one random block the invocation completes and
\* every query token attends to every key token of the (unpadded) sequence.
C18_DenseAtFiveBlocks ==
    \A k \in Inv :
        (Started(k) /\ Valid(k) /\ NumBlocks(k) = 5 /\ cfg[k].r = 1) =>
            /\ pc[k] # "error"
            /\ (ForwardReturned(k) /\ AllValid(k)) =>
                  \A h \in Heads(k) : \A q \in Tokens(k) :
                      Context(k, h, q) = Tokens(k)

\* C19: after forward has returned, nothing of the invocation is stored on
\* the module.
C19_ModuleUnchanged ==
    \A k \in Inv : ForwardReturned(k) => stored[k] = {}

\* C20: with output_attentions and at least 5 blocks, once the context is
\* computed the invocation completes, and in the weight map it returns every
\* query row has weights at the columns of its window and global key blocks
\* and zero at the columns outside its window, global and random blocks.
C20_DenseWeightMap ==
    \A k \in Inv :
        (inputs[k].output_attentions /\ Valid(k) /\ "final_cl" \in stored[k]) =>
            /\ pc[k] # "error"
            /\ ForwardReturned(k) =>
                  \A h \in Heads(k) : \A q \in Tokens(k) : \A t \in Tokens(k) :
                      LET i == BlockOf(k, q)
                          random == IF i \in Interior(k)
                                    THEN Range(Row(k, h, i)) ELSE {}
                      IN  /\ BlockOf(k, t) \in WindowGlobal(i, NumBlocks(k)) =>
                                probs[k][h][q + 1][t + 1] # 0
                          /\ BlockOf(k, t) \notin WindowGlobal(i, NumBlocks(k))
                                                     \cup random =>
                                probs[k][h][q + 1][t + 1] = 0

\* C26: when sampling returns on at least 5 blocks, the row of query block 1
\* never holds block B-2 and the row of query block B-2 never holds block 1.
C26_BoundarySymmetry ==
    \A k \in Inv :
        (Returned(k) /\ NumBlocks(k) >= 5) =>
            \A h \in Heads(k) :
                /\ (NumBlocks(k) - 2) \notin Range(Row(k, h, 1))
                /\ 1 \notin Range(Row(k, h, NumBlocks(k) - 2))

\* C27: when 2r+5 < B and r >= 1, every returned row of an interior query
\* block holds exactly r distinct blocks, all in 1..2r+3.
C27_FirstSegmentOnly ==
    \A k \in Inv :
        (Returned(k) /\ 2 * cfg[k].r + 5 < NumBlocks(k) /\ cfg[k].r >= 1) =>
            \A h \in Heads(k) : \A i \in Interior(k) :
                /\ Len(Row(k, h, i)) = cfg[k].r
                /\ Distinct(Row(k, h, i))
                /\ Range(Row(k, h, i)) \subseteq 1..(2 * cfg[k].r + 3)

\* rows of two blocks have returned for query blocks beyond the first segment
C27_Witness ==
    \E k \in Inv :
        /\ Returned(k) /\ cfg[k].r = 2
        /\ 2 * cfg[k].r + 5 < NumBlocks(k) - 1

\* C28: the budgets of every plan _get_rand_attn_plan returns sum to
\* num_rand_blocks.
C28_BudgetsSum ==
    plan_ret.kind = "plan" =>
        SumTo(plan_ret.plan.plan_num_rand_blocks,
              Len(plan_ret.plan.plan_num_rand_blocks)) = plan_args.num_rand_blocks

\* a plan that splits an odd budget has been returned
C28_Witness ==
    /\ plan_ret.kind = "plan"
    /\ plan_args.num_rand_blocks % 2 = 1
    /\ Len(plan_ret.plan.plan_num_rand_blocks) = 2
    /\ plan_ret.plan.plan_num_rand_blocks[2] > 0

\* the attention mask of invocation k and its valid key tokens among blocks
Mask(k) == inputs[k].attention_mask
ValidKeys(k, blocks) ==
    {t \in Tokens(k) : Mask(k)[t + 1] = 1 /\ BlockOf(k, t) \in blocks}

\* C21: once the key blocks are gathered, row i-1 of the gathered tensor has
\* r*block_size key rows and its position j*block_size+x is the key token
\* adjacency[h][i][j]*block_size+x, for every head.
C21_GatherOrder ==
    \A k \in Inv :
        "gk" \in stored[k] =>
            \A h \in Heads(k) : \A i \in 1..(NumBlocks(k) - 2) :
                /\ Len(gathered_key[k][h][i]) = cfg[k].r * cfg[k].block_size
                /\ \A j \in 0..(cfg[k].r - 1) : \A x \in 0..(cfg[k].block_size - 1) :
                      gathered_key[k][h][i][j * cfg[k].block_size + x + 1]
                          = Row(k, h, i)[j + 1] * cfg[k].block_size + x

\* gathered rows of two different blocks each
C21_Witness ==
    \E k \in Inv :
        /\ "gk" \in stored[k]
        /\ \E h \in Heads(k) : \E i \in 1..(NumBlocks(k) - 2) :
              /\ Len(Row(k, h, i)) >= 2
              /\ Row(k, h, i)[1] # Row(k, h, i)[2]

\* C22: in the context of a valid query token of an interior block i, the
\* values that enter are exactly those of the valid key tokens of the blocks
\* 0, i-1, i, i+1, B-1 and of the adjacency row of block i.
C22_MiddleBlocks ==
    \A k \in Inv :
        ("cl" \in stored[k] /\ Valid(k)) =>
            \A h \in Heads(k) : \A q \in Tokens(k) :
                (Mask(k)[q + 1] = 1 /\ BlockOf(k, q) \in 2..(NumBlocks(k) - 3)) =>
                    Context(k, h, q) =
                        ValidKeys(k, {0, BlockOf(k, q) - 1, BlockOf(k, q),
                                      BlockOf(k, q) + 1, NumBlocks(k) - 1}
                                     \cup Range(Row(k, h, BlockOf(k, q))))

\* an interior block whose adjacency row holds a padded token, and the row
\* of the block before it holds other blocks
C22_Witness ==
    \E k \in Inv :
        /\ "cl" \in stored[k] /\ Valid(k)
        /\ \E h \in Heads(k) : \E i \in 2..(NumBlocks(k) - 3) :
              /\ Range(Row(k, h, i)) # Range(Row(k, h, i - 1))
              /\ \E t \in Tokens(k) :
                    Mask(k)[t + 1] = 0 /\ BlockOf(k, t) \in Range(Row(k, h, i))

\* C23: the values in the context of a valid query token of block 1 are those
\* of the valid key tokens of blocks 0, 1, 2, B-1 and its adjacency row; for
\* block B-2 those of blocks 0, B-3, B-2, B-1 and its adjacency row.
C23_BoundaryBlocks ==
    \A k \in Inv :
        ("slcl" \in stored[k] /\ Valid(k)) =>
            \A h \in Heads(k) : \A q \in Tokens(k) :
                /\ (Mask(k)[q + 1] = 1 /\ BlockOf(k, q) = 1) =>
                      Context(k, h, q) =
                          ValidKeys(k, {0, 1, 2, NumBlocks(k) - 1}
                                       \cup Range(Row(k, h, 1)))
                /\ (Mask(k)[q + 1] = 1 /\ BlockOf(k, q) = NumBlocks(k) - 2) =>
                      Context(k, h, q) =
                          ValidKeys(k, {0, NumBlocks(k) - 3, NumBlocks(k) - 2,
                                        NumBlocks(k) - 1}
                                       \cup Range(Row(k, h, NumBlocks(k) - 2)))

\* block B-2 has been attended with a padded token in block B-3
C23_Witness ==
    \E k \in Inv :
        /\ "slcl" \in stored[k] /\ Valid(k)
        /\ \E t \in Tokens(k) :
              Mask(k)[t + 1] = 0 /\ BlockOf(k, t) = NumBlocks(k) - 3

\* C24: the band mask holds B-4 masks of block_size rows and 3*block_size
\* columns; entry (q, x) of mask i-2 is 1 exactly when query token
\* i*block_size+q and key token (i-1)*block_size+x are both valid.
C24_BandMask ==
    \A k \in Inv :
        (pc[k] \notin {"absent", "embedded"} /\ NumBlocks(k) >= 4
         /\ PyMod(cfg[k].seq_len, cfg[k].block_size) = 0) =>
            /\ Len(inputs[k].band_mask) = NumBlocks(k) - 4
            /\ \A i \in 2..(NumBlocks(k) - 3) :
                  /\ Len(inputs[k].band_mask[i - 1]) = cfg[k].block_size
                  /\ \A q \in 0..(cfg[k].block_size - 1) :
                        /\ Len(inputs[k].band_mask[i - 1][q + 1]) = 3 * cfg[k].block_size
                        /\ \A x \in 0..(3 * cfg[k].block_size - 1) :
                              inputs[k].band_mask[i - 1][q + 1][x + 1] =
                                  Mask(k)[i * cfg[k].block_size + q + 1]
                                  * Mask(k)[(i - 1) * cfg[k].block_size + x + 1]

\* masks have been derived for six blocks or more with a padded token in the
\* window of an interior block
C24_Witness ==
    \E k \in Inv :
        /\ pc[k] = "ready" /\ NumBlocks(k) >= 6
        /\ Len(inputs[k].band_mask) = NumBlocks(k) - 4
        /\ \E t \in Tokens(k) :
              Mask(k)[t + 1] = 0 /\ BlockOf(k, t) \in 1..(NumBlocks(k) - 2)

\* C25: entry (h, i-1, q, j*block_size+x) of the rand mask is 1 exactly when
\* query token i*block_size+q and key token adjacency[h][i][j]*block_size+x
\* are both valid.
C25_RandMaskOrder ==
    \A k \in Inv :
        "rand_mask" \in stored[k] =>
            \A h \in Heads(k) : \A i \in 1..(NumBlocks(k) - 2) :
                \A q \in 0..(cfg[k].block_size - 1) :
                    /\ Len(rand_mask[k][h][i][q + 1]) = cfg[k].r * cfg[k].block_size
                    /\ \A j \in 0..(cfg[k].r - 1) : \A x \in 0..(cfg[k].block_size - 1) :
                          rand_mask[k][h][i][q + 1][j * cfg[k].block_size + x + 1] =
                              Mask(k)[i * cfg[k].block_size + q + 1]
                              * Mask(k)[Row(k, h, i)[j + 1] * cfg[k].block_size + x + 1]

\* a rand mask of two heads with a padded token in a block of some row
C25_Witness ==
    \E k \in Inv :
        /\ "rand_mask" \in stored[k] /\ cfg[k].heads >= 2
        /\ \E i \in 1..(NumBlocks(k) - 2) : \E t \in Tokens(k) :
              Mask(k)[t + 1] = 0 /\ BlockOf(k, t) \in Range(Row(k, 1, i))

\* the window and global key blocks scored by query block i, in the order
\* of the key matrix
FixedKeys(i, nb) ==
    IF i = 1 THEN <<0, 1, 2, nb - 1>>
    ELSE IF i = nb - 2 THEN <<0, nb - 3, nb - 2, nb - 1>>
    ELSE <<0, i - 1, i, i + 1, nb - 1>>

\* C29: when forward returns, the key blocks that enter the softmax of a
\* query block 1..B-2 (fixed blocks and adjacency row) are pairwise distinct.
C29_KeysDistinct ==
    \A k \in Inv :
        ForwardReturned(k) =>
            \A h \in Heads(k) : \A i \in 1..(NumBlocks(k) - 2) :
                Distinct(FixedKeys(i, NumBlocks(k)) \o Row(k, h, i))

\* C30: on a sequence of 1024, 3072 or 4096 tokens with at least 5 blocks,
\* no entry of the returned row of query block i is one of 0, B-1, i-1, i,
\* i+1.
C30_OldPlanExclusion ==
    \A k \in Inv :
        (Returned(k) /\ cfg[k].seq_len \in OldPlanLengths /\ NumBlocks(k) >= 5) =>
            \A h \in Heads(k) : \A i \in 1..(NumBlocks(k) - 2) :
                Range(Row(k, h, i))
                    \cap {0, NumBlocks(k) - 1, i - 1, i, i + 1} = {}

====
